---- MODULE Spec2Model ----
(***************************************************************************)
(* The request handlers of src/main.py: get_transcript (GET                *)
(* /transcript/{video_id}) and list_transcripts (GET                       *)
(* /transcripts/list/{video_id}).  The youtube_transcript_api library is   *)
(* an opaque collaborator: each call to it either returns a value or       *)
(* raises an exception, chosen nondeterministically.  Every call a handler *)
(* makes is recorded, with its arguments and its outcome, in the log of    *)
(* the request that made it.                                               *)
(***************************************************************************)
EXTENDS Integers, Sequences, FiniteSets, TLC

VARIABLES request, pc, calls, response

vars == <<request, pc, calls, response>>

(***************************************************************************)
(* Bounds of the model.                                                    *)
(***************************************************************************)
MaxLangs == 2
MaxSegments == 2
MaxListing == 2
NumRequests == 2

Requests == 1..NumRequests

SeqsUpTo(S, n) == UNION {[1..k -> S] : k \in 0..n}

(***************************************************************************)
(* Inputs of the handlers.                                                 *)
(***************************************************************************)
VideoIds == {"v1", "v2"}

LanguageCodes == {"en", "es"}

\* The values of the repeatable query parameter "languages", when the query
\* string carries it: at least one value.
LanguageLists == SeqsUpTo(LanguageCodes, MaxLangs) \ {<<>>}

\* Variant: the default is the empty list.
DefaultLanguagesEmpty == <<>>

\* Query(default=['en']): the value of languages when the query string
\* carries no "languages" parameter.
DefaultLanguages == <<"en">>

(***************************************************************************)
(* What the external library can hand back.                                *)
(***************************************************************************)
Segments ==
    { [text |-> "hello", start |-> 0, duration |-> 1],
      [text |-> "world", start |-> 1, duration |-> 2] }

SegmentLists == SeqsUpTo(Segments, MaxSegments)

\* Transcript objects of a listing.  The handlers read language,
\* language_code, is_generated and is_translatable; translation_languages is
\* an attribute they never read.  A video can carry a manually created and a
\* generated transcript of the same language code.
TranscriptObjects ==
    { [language |-> "English", language_code |-> "en", is_generated |-> FALSE,
       is_translatable |-> TRUE, translation_languages |-> <<"de">>],
      [language |-> "English (auto-generated)", language_code |-> "en",
       is_generated |-> TRUE, is_translatable |-> TRUE,
       translation_languages |-> <<"de">>],
      [language |-> "Spanish", language_code |-> "es", is_generated |-> TRUE,
       is_translatable |-> FALSE, translation_languages |-> <<>>] }

Listings == SeqsUpTo(TranscriptObjects, MaxListing)

\* Exceptions: type is the class matched by the except clauses, msg is str(e).
NoException == [type |-> "none", msg |-> ""]

NoTranscriptFound == [type |-> "NoTranscriptFound", msg |-> "No transcripts were found"]

TranscriptsDisabled == [type |-> "TranscriptsDisabled", msg |-> "Subtitles are disabled"]

OtherExceptions ==
    { [type |-> "Exception", msg |-> "connection reset"],
      [type |-> "Exception", msg |-> "video unavailable"] }

Exceptions == {NoTranscriptFound, TranscriptsDisabled} \cup OtherExceptions

(***************************************************************************)
(* The inputs of the concurrent specification: the same handlers, several  *)
(* requests in flight at once, over fixed small sets of inputs.            *)
(***************************************************************************)
ConcLanguageLists == {<<"en">>, <<"es", "en">>}

ConcSegmentLists == {s \in SegmentLists : Len(s) = 1}

ConcListings == {t \in Listings : Len(t) = 1 /\ ~t[1].is_generated}

ConcExceptions == {e \in Exceptions : e.msg # "video unavailable"}

(***************************************************************************)
(* Records of the log and of the outcome of a handler.                     *)
(***************************************************************************)
\* query: the values of "languages" in the query string; languages: the
\* argument the handler is entered with.
NoRequest == [op |-> "none", video_id |-> "", query |-> <<>>, languages |-> <<>>]

Returned(api, video_id, languages, value) ==
    [api |-> api, video_id |-> video_id, languages |-> languages,
     outcome |-> "returned", value |-> value, exc |-> NoException]

Raised(api, video_id, languages, e) ==
    [api |-> api, video_id |-> video_id, languages |-> languages,
     outcome |-> "raised", value |-> <<>>, exc |-> e]

NoResponse ==
    [kind |-> "none", status_code |-> 0, detail |-> "", video_id |-> "",
     transcript |-> <<>>, available_transcripts |-> <<>>, exc |-> NoException]

\* raise HTTPException(status_code=..., detail=...)
HTTPException(status_code, detail) ==
    [NoResponse EXCEPT !.kind = "HTTPException", !.status_code = status_code,
                       !.detail = detail]

\* An exception no except clause of the handler matches leaves the handler.
Uncaught(e) == [NoResponse EXCEPT !.kind = "uncaught", !.exc = e]

(***************************************************************************)
(* Pure parts of the handlers.                                             *)
(***************************************************************************)
RECURSIVE Join(_, _)
\* sep.join(parts)
Join(parts, sep) ==
    IF parts = <<>> THEN ""
    ELSE IF Len(parts) = 1 THEN parts[1]
    ELSE parts[1] \o sep \o Join(Tail(parts), sep)

\* Variant: the detail does not name the video.
DisabledDetailNoId(video_id) == "Transcripts are disabled for this video."

\* f"Transcripts are disabled for video '{video_id}'."
DisabledDetail(video_id) == "Transcripts are disabled for video '" \o video_id \o "'."

\* Variant: the description of the fault is dropped.
UnexpectedDetailNoDescription(e) == "An unexpected error occurred"

\* f"An unexpected error occurred: {str(e)}"
UnexpectedDetail(e) == "An unexpected error occurred: " \o e.msg

\* The language codes of a listing, each kept at its first occurrence only.
RECURSIVE DistinctCodes(_, _)
DistinctCodes(available_transcripts, seen) ==
    IF available_transcripts = <<>> THEN <<>>
    ELSE LET c == Head(available_transcripts).language_code
         IN  IF c \in seen
             THEN DistinctCodes(Tail(available_transcripts), seen)
             ELSE <<c>> \o DistinctCodes(Tail(available_transcripts), seen \cup {c})

\* Variant: the codes are deduplicated before they are joined.
AvailableCodesDeduplicated(available_transcripts) ==
    DistinctCodes(available_transcripts, {})

\* [t.language_code for t in available_transcripts]
AvailableCodes(available_transcripts) ==
    [i \in 1..Len(available_transcripts) |-> available_transcripts[i].language_code]

\* error_detail of the 404
NotFoundDetail(languages, available_codes) ==
    "Could not find a transcript in the requested languages: "
        \o Join(languages, ", ") \o ". "
        \o "Available languages are: " \o Join(available_codes, ", ")

\* Variant: segments accumulate in a list shared by the requests of a video.
TranscriptBodyShared(video_id, transcript_list) ==
    LET earlier == {q \in Requests : response[q].kind = "return"
                                     /\ response[q].video_id = video_id}
    IN  [NoResponse EXCEPT !.kind = "return", !.status_code = 200,
                           !.video_id = video_id,
                           !.transcript = IF earlier = {} THEN transcript_list
                                          ELSE transcript_list \o transcript_list]

\* Variant: the first segment is dropped.
TranscriptBodyDropFirst(video_id, transcript_list) ==
    [NoResponse EXCEPT !.kind = "return", !.status_code = 200,
                       !.video_id = video_id,
                       !.transcript = IF transcript_list = <<>> THEN <<>>
                                      ELSE Tail(transcript_list)]

\* return {"video_id": video_id, "transcript": transcript_list}
TranscriptBody(video_id, transcript_list) ==
    [NoResponse EXCEPT !.kind = "return", !.status_code = 200,
                       !.video_id = video_id, !.transcript = transcript_list]

\* Variant: the two flags are swapped.
FormattedListFlagsSwapped(transcript_list) ==
    [i \in 1..Len(transcript_list) |->
        [language |-> transcript_list[i].language,
         language_code |-> transcript_list[i].language_code,
         is_generated |-> transcript_list[i].is_translatable,
         is_translatable |-> transcript_list[i].is_generated]]

\* formatted_list = [{...} for t in transcript_list]
FormattedList(transcript_list) ==
    [i \in 1..Len(transcript_list) |->
        [language |-> transcript_list[i].language,
         language_code |-> transcript_list[i].language_code,
         is_generated |-> transcript_list[i].is_generated,
         is_translatable |-> transcript_list[i].is_translatable]]

\* return {"video_id": video_id, "available_transcripts": formatted_list}
ListBody(video_id, formatted_list) ==
    [NoResponse EXCEPT !.kind = "return", !.status_code = 200,
                       !.video_id = video_id,
                       !.available_transcripts = formatted_list]

\* Variant: the enrichment branch is taken for TranscriptsDisabled too.
EnrichesOnAnyRetrievalFailure(e) ==
    e.type \in {"NoTranscriptFound", "TranscriptsDisabled"}

\* except NoTranscriptFound:
IsNoTranscriptFound(e) == e.type = "NoTranscriptFound"

\* except TranscriptsDisabled:
IsTranscriptsDisabled(e) == e.type = "TranscriptsDisabled"

(***************************************************************************)
(* The state after construction: no request has arrived.                   *)
(***************************************************************************)
Init ==
    /\ request = [r \in Requests |-> NoRequest]
    /\ pc = [r \in Requests |-> "idle"]
    /\ calls = [r \in Requests |-> <<>>]
    /\ response = [r \in Requests |-> NoResponse]

\* A worker is free when it handles no request.
Free(r) == pc[r] \in {"idle", "done"}

Accept(r, op, video_id, query, languages, at) ==
    /\ request' = [request EXCEPT ![r] =
                      [op |-> op, video_id |-> video_id, query |-> query,
                       languages |-> languages]]
    /\ pc' = [pc EXCEPT ![r] = at]
    /\ calls' = [calls EXCEPT ![r] = <<>>]
    /\ response' = [response EXCEPT ![r] = NoResponse]

Finish(r, call, resp) ==
    /\ calls' = [calls EXCEPT ![r] = Append(@, call)]
    /\ response' = [response EXCEPT ![r] = resp]
    /\ pc' = [pc EXCEPT ![r] = "done"]
    /\ UNCHANGED request

(***************************************************************************)
(* get_transcript                                                          *)
(***************************************************************************)
\* The route is entered with the languages of the query string.
FetchRequest(r, video_id, languages) ==
    /\ Free(r)
    /\ Accept(r, "get_transcript", video_id, languages, languages, "get_transcript")

\* The route is entered without a languages parameter.
FetchRequestDefault(r, video_id) ==
    /\ Free(r)
    /\ Accept(r, "get_transcript", video_id, <<>>, DefaultLanguages, "get_transcript")

\* YouTubeTranscriptApi.get_transcript returns: the handler returns the body.
GetTranscriptReturns(r, transcript_list) ==
    /\ pc[r] = "get_transcript"
    /\ Finish(r, Returned("get_transcript", request[r].video_id,
                          request[r].languages, transcript_list),
              TranscriptBody(request[r].video_id, transcript_list))

\* YouTubeTranscriptApi.get_transcript raises e: the first matching except
\* clause of the outer try runs.
GetTranscriptRaises(r, e) ==
    /\ pc[r] = "get_transcript"
    /\ LET call == Raised("get_transcript", request[r].video_id,
                          request[r].languages, e)
       IN  IF IsNoTranscriptFound(e)
           THEN /\ calls' = [calls EXCEPT ![r] = Append(@, call)]
                /\ pc' = [pc EXCEPT ![r] = "enrich"]
                /\ UNCHANGED <<request, response>>
           ELSE IF IsTranscriptsDisabled(e)
           THEN Finish(r, call, HTTPException(403, DisabledDetail(request[r].video_id)))
           ELSE Finish(r, call, HTTPException(500, UnexpectedDetail(e)))

\* Inside "except NoTranscriptFound": list_transcripts returns; the handler
\* raises the 404, which no clause of the inner try matches.
EnrichListReturns(r, available_transcripts) ==
    /\ pc[r] = "enrich"
    /\ Finish(r, Returned("list_transcripts", request[r].video_id, <<>>,
                          available_transcripts),
              HTTPException(404, NotFoundDetail(request[r].languages,
                                                AvailableCodes(available_transcripts))))

\* Inside "except NoTranscriptFound": list_transcripts raises e.  The inner
\* try has the one clause "except TranscriptsDisabled"; the clauses of the
\* outer try do not apply to an exception raised inside one of its handlers.
EnrichListRaises(r, e) ==
    /\ pc[r] = "enrich"
    /\ LET call == Raised("list_transcripts", request[r].video_id, <<>>, e)
       IN  IF IsTranscriptsDisabled(e)
           THEN Finish(r, call, HTTPException(403, DisabledDetail(request[r].video_id)))
           ELSE Finish(r, call, Uncaught(e))

(***************************************************************************)
(* list_transcripts                                                        *)
(***************************************************************************)
ListRequest(r, video_id) ==
    /\ Free(r)
    /\ Accept(r, "list_transcripts", video_id, <<>>, <<>>, "list_transcripts")

ListReturns(r, transcript_list) ==
    /\ pc[r] = "list_transcripts"
    /\ Finish(r, Returned("list_transcripts", request[r].video_id, <<>>,
                          transcript_list),
              ListBody(request[r].video_id, FormattedList(transcript_list)))

ListRaises(r, e) ==
    /\ pc[r] = "list_transcripts"
    /\ LET call == Raised("list_transcripts", request[r].video_id, <<>>, e)
       IN  IF IsTranscriptsDisabled(e)
           THEN Finish(r, call, HTTPException(403, DisabledDetail(request[r].video_id)))
           ELSE Finish(r, call, HTTPException(500, UnexpectedDetail(e)))

(***************************************************************************)
(* Specifications.  Spec: one request at a time, over all the bounded      *)
(* inputs.  SpecConc: NumRequests requests in flight, interleaved at the   *)
(* external calls.                                                         *)
(***************************************************************************)
Next ==
    \/ \E v \in VideoIds, l \in LanguageLists : FetchRequest(1, v, l)
    \/ \E v \in VideoIds : FetchRequestDefault(1, v)
    \/ \E s \in SegmentLists : GetTranscriptReturns(1, s)
    \/ \E e \in Exceptions : GetTranscriptRaises(1, e)
    \/ \E t \in Listings : EnrichListReturns(1, t)
    \/ \E e \in Exceptions : EnrichListRaises(1, e)
    \/ \E v \in VideoIds : ListRequest(1, v)
    \/ \E t \in Listings : ListReturns(1, t)
    \/ \E e \in Exceptions : ListRaises(1, e)

Spec == Init /\ [][Next]_vars

NextConc ==
    \E r \in Requests :
        \/ \E v \in VideoIds, l \in ConcLanguageLists : FetchRequest(r, v, l)
        \/ \E v \in VideoIds : FetchRequestDefault(r, v)
        \/ \E s \in ConcSegmentLists : GetTranscriptReturns(r, s)
        \/ \E e \in ConcExceptions : GetTranscriptRaises(r, e)
        \/ \E t \in ConcListings : EnrichListReturns(r, t)
        \/ \E e \in ConcExceptions : EnrichListRaises(r, e)
        \/ \E v \in VideoIds : ListRequest(r, v)
        \/ \E t \in ConcListings : ListReturns(r, t)
        \/ \E e \in ConcExceptions : ListRaises(r, e)

SpecConc == Init /\ [][NextConc]_vars

(***************************************************************************)
(* Properties.                                                             *)
(***************************************************************************)
Done(r) == pc[r] = "done"

IsFetch(r) == request[r].op = "get_transcript"

IsList(r) == request[r].op = "list_transcripts"

CallRaised(r, i, type) ==
    /\ Len(calls[r]) >= i
    /\ calls[r][i].outcome = "raised"
    /\ calls[r][i].exc.type = type

CallReturned(r, i) ==
    /\ Len(calls[r]) >= i
    /\ calls[r][i].outcome = "returned"

\* The enrichment call of a fetch failed with a fault other than Disabled.
EnrichmentFailed(r) ==
    /\ Done(r) /\ IsFetch(r)
    /\ CallRaised(r, 1, "NoTranscriptFound")
    /\ Len(calls[r]) = 2
    /\ calls[r][2].outcome = "raised"
    /\ calls[r][2].exc.type # "TranscriptsDisabled"

\* C1: a fetch whose get-transcript call raised NoTranscriptFound and whose
\* enrichment listing raised a fault other than TranscriptsDisabled ends
\* with status 404 and a detail without the available-languages clause.
C1_EnrichmentFailureIs404 ==
    \A r \in Requests :
        EnrichmentFailed(r) =>
            /\ response[r].kind = "HTTPException"
            /\ response[r].status_code = 404
            /\ response[r].detail # ""

\* C2: whenever an external call of a request raised TranscriptsDisabled
\* (the get-transcript call, the enrichment listing, or the listing of
\* list-transcripts) the response is a 403 whose detail is
\* "Transcripts are disabled for video '<videoId>'." with the requested id.
C2_DisabledIs403 ==
    \A r \in Requests :
        (Done(r) /\ \E i \in 1..Len(calls[r]) : CallRaised(r, i, "TranscriptsDisabled")) =>
            /\ response[r].kind = "HTTPException"
            /\ response[r].status_code = 403
            /\ response[r].detail =
                   "Transcripts are disabled for video '" \o request[r].video_id \o "'."

\* The enrichment listing reports Disabled after a NotFound fetch; the 403
\* names the video of the request.
C2_Witness ==
    \E r \in Requests :
        /\ Done(r) /\ IsFetch(r)
        /\ CallRaised(r, 1, "NoTranscriptFound")
        /\ CallRaised(r, 2, "TranscriptsDisabled")
        /\ request[r].video_id = "v2"
        /\ response[r].status_code = 403

EnrichmentSucceeded(r) ==
    /\ Done(r) /\ IsFetch(r)
    /\ CallRaised(r, 1, "NoTranscriptFound")
    /\ CallReturned(r, 2)

\* C3 as amended: after a NotFound fetch and a successful enrichment listing
\* the response is a 404 whose detail names the requested languages in the
\* caller's order and carries one language code per enumerated transcript, in
\* enumeration order (a code shared by several transcripts is repeated).
C3_DetailListsOneCodePerTranscript ==
    \A r \in Requests :
        EnrichmentSucceeded(r) =>
            LET listing == calls[r][2].value
                codes == [i \in 1..Len(listing) |-> listing[i].language_code]
            IN  /\ response[r].kind = "HTTPException"
                /\ response[r].status_code = 404
                /\ response[r].detail =
                       "Could not find a transcript in the requested languages: "
                           \o Join(request[r].languages, ", ")
                           \o ". Available languages are: " \o Join(codes, ", ")

\* Two requested languages, and a listing of two transcripts sharing a code.
C3_Witness ==
    \E r \in Requests :
        /\ EnrichmentSucceeded(r)
        /\ request[r].languages = <<"es", "en">>
        /\ Len(calls[r][2].value) = 2
        /\ calls[r][2].value[1].language_code = calls[r][2].value[2].language_code
        /\ response[r].status_code = 404

\* C3 as claimed: the detail carries every available language code exactly
\* once, in the order of its first enumeration.
C3_DetailListsEachCodeOnce ==
    \A r \in Requests :
        EnrichmentSucceeded(r) =>
            /\ response[r].status_code = 404
            /\ response[r].detail =
                   "Could not find a transcript in the requested languages: "
                       \o Join(request[r].languages, ", ")
                       \o ". Available languages are: "
                       \o Join(DistinctCodes(calls[r][2].value, {}), ", ")

\* C4: every finished request ends in a response produced by the handler,
\* with status 200, 403, 404 or 500, every non-200 one carrying a detail; no
\* exception of an external call leaves the handler.
C4_HandlerAlwaysResponds ==
    \A r \in Requests :
        Done(r) =>
            /\ response[r].kind \in {"return", "HTTPException"}
            /\ response[r].status_code \in {200, 403, 404, 500}
            /\ response[r].status_code # 200 =>
                   (response[r].kind = "HTTPException" /\ response[r].detail # "")

C6_UnexpectedIs500 ==
    \A r \in Requests :
        (/\ Done(r)
         /\ Len(calls[r]) >= 1
         /\ calls[r][1].outcome = "raised"
         /\ \/ IsFetch(r) /\ calls[r][1].exc.type \notin {"NoTranscriptFound", "TranscriptsDisabled"}
            \/ IsList(r) /\ calls[r][1].exc.type # "TranscriptsDisabled") =>
            /\ response[r].kind = "HTTPException"
            /\ response[r].status_code = 500
            /\ response[r].detail =
                   "An unexpected error occurred: " \o calls[r][1].exc.msg
            /\ Len(calls[r]) = 1

\* A fetch whose get-transcript call failed with a connection fault.
C6_Witness ==
    \E r \in Requests :
        /\ Done(r) /\ IsFetch(r)
        /\ CallRaised(r, 1, "Exception")
        /\ calls[r][1].exc.msg = "connection reset"
        /\ response[r].status_code = 500

\* C7 as amended: when the get-transcript call returns, the response is a
\* 200 with the requested video_id and a transcript that is exactly the
\* returned sequence (empty when the returned sequence is empty), and no
\* listing call is made.
C7_TranscriptPassedThrough ==
    \A r \in Requests :
        (Done(r) /\ IsFetch(r) /\ CallReturned(r, 1)) =>
            /\ response[r].kind = "return"
            /\ response[r].status_code = 200
            /\ response[r].video_id = request[r].video_id
            /\ response[r].transcript = calls[r][1].value
            /\ Len(calls[r]) = 1

\* A transcript of two different segments came back.
C7_Witness ==
    \E r \in Requests :
        /\ Done(r) /\ IsFetch(r) /\ CallReturned(r, 1)
        /\ Len(calls[r][1].value) = 2
        /\ calls[r][1].value[1] # calls[r][1].value[2]
        /\ response[r].status_code = 200

\* C7 as claimed: the transcript of the 200 is moreover non-empty.
C7_TranscriptNonEmpty ==
    \A r \in Requests :
        (Done(r) /\ IsFetch(r) /\ CallReturned(r, 1)) =>
            /\ response[r].status_code = 200
            /\ response[r].transcript = calls[r][1].value
            /\ response[r].transcript # <<>>

\* C8: when the listing call of list-transcripts returns, the response is a
\* 200 with the requested video_id and as many entries as transcripts were
\* enumerated, the i-th being (language, language_code, is_generated,
\* is_translatable) of the i-th transcript.
C8_ListingProjectedInOrder ==
    \A r \in Requests :
        (Done(r) /\ IsList(r) /\ CallReturned(r, 1)) =>
            LET listing == calls[r][1].value
                out == response[r].available_transcripts
            IN  /\ response[r].kind = "return"
                /\ response[r].status_code = 200
                /\ response[r].video_id = request[r].video_id
                /\ Len(out) = Len(listing)
                /\ \A i \in 1..Len(listing) :
                       /\ DOMAIN out[i] = {"language", "language_code",
                                           "is_generated", "is_translatable"}
                       /\ out[i].language = listing[i].language
                       /\ out[i].language_code = listing[i].language_code
                       /\ out[i].is_generated = listing[i].is_generated
                       /\ out[i].is_translatable = listing[i].is_translatable

\* A listing of two transcripts sharing a language code, whose flags differ.
C8_Witness ==
    \E r \in Requests :
        /\ Done(r) /\ IsList(r) /\ CallReturned(r, 1)
        /\ Len(calls[r][1].value) = 2
        /\ calls[r][1].value[1].language_code = calls[r][1].value[2].language_code
        /\ calls[r][1].value[1].is_generated # calls[r][1].value[1].is_translatable
        /\ Len(response[r].available_transcripts) = 2

\* C9: no state is kept across requests: two finished requests with the same
\* operation, video and languages whose own external calls had the same
\* outcomes have the same response, and every finished request has made its
\* own external call, with its own arguments.
C9_Stateless ==
    /\ \A r, q \in Requests :
           (/\ Done(r) /\ Done(q)
            /\ request[r].op = request[q].op
            /\ request[r].video_id = request[q].video_id
            /\ request[r].languages = request[q].languages
            /\ calls[r] = calls[q]) =>
               response[r] = response[q]
    /\ \A r \in Requests :
           Done(r) =>
               /\ Len(calls[r]) >= 1
               /\ \A i \in 1..Len(calls[r]) :
                      /\ calls[r][i].video_id = request[r].video_id
                      /\ calls[r][i].api = "get_transcript" =>
                             calls[r][i].languages = request[r].languages

\* The same fetch was handled by two workers, each with its own call.
C9_Witness ==
    \E r, q \in Requests :
        /\ r # q
        /\ Done(r) /\ Done(q)
        /\ IsFetch(r) /\ request[r] = request[q]
        /\ calls[r] = calls[q]
        /\ CallReturned(r, 1)
        /\ response[r].status_code = 200

\* C10: a fetch makes one get-transcript call, followed by one listing call
\* exactly when the get-transcript call raised NoTranscriptFound; a listing
\* request makes one listing call; nothing is called twice.
C10_CallsBounded ==
    \A r \in Requests :
        /\ Len(calls[r]) <= 2
        /\ IsFetch(r) =>
               /\ Len(calls[r]) >= 1 => calls[r][1].api = "get_transcript"
               /\ Len(calls[r]) = 2 =>
                      /\ calls[r][2].api = "list_transcripts"
                      /\ CallRaised(r, 1, "NoTranscriptFound")
               /\ Done(r) =>
                      /\ Len(calls[r]) >= 1
                      /\ CallRaised(r, 1, "NoTranscriptFound") <=> Len(calls[r]) = 2
        /\ IsList(r) =>
               /\ Len(calls[r]) <= 1
               /\ Len(calls[r]) = 1 => calls[r][1].api = "list_transcripts"
               /\ Done(r) => Len(calls[r]) = 1

\* A fetch that made both calls, and whose listing failed: nothing is retried.
C10_Witness ==
    \E r \in Requests :
        /\ Done(r) /\ IsFetch(r)
        /\ Len(calls[r]) = 2
        /\ calls[r][2].outcome = "raised"

====
